---- MODULE Spec2Model ----
(***************************************************************************)
(* A model of dataclass_rest's base.py: the rest decorator (route          *)
(* compilation and the generated wrapper), BaseClient (construction, the   *)
(* error-handler table, query filtering and request).                      *)
(*                                                                         *)
(* Python values are records [tag, n]; strings that are built or taken     *)
(* apart by the code (URLs) are sequences of one-character strings;        *)
(* dictionaries are functions over sets of names.                          *)
(***************************************************************************)
EXTENDS Integers, Sequences, FiniteSets, TLC

VARIABLES
    init_arg,        \* the base_url argument BaseClient.__init__ was given
    base_url,        \* self.base_url
    error_handlers,  \* self.error_handlers: <<verb, status>> -> handler
    route,           \* what applying the decorator to a method left behind
    last             \* the last operation performed and how it ended

vars == <<init_arg, base_url, error_handlers, route, last>>

----------------------------------------------------------------------------
(* Bounds of the model. *)

\* the largest number of trailing slashes of a base URL given to __init__
MaxSlashes == 2
\* the largest number of positional arguments of a call (the receiver apart)
MaxPos == 2

----------------------------------------------------------------------------
(* Python values. *)

IntV(k) == [tag |-> "int", n |-> k]
NoneV == [tag |-> "None", n |-> 0]
\* the client instance itself (the receiver, self)
SelfV == [tag |-> "client", n |-> 0]
\* an instance Item(n=k) of a dataclass Item with one int field n
ItemV(k) == [tag |-> "Item", n |-> k]
\* the dict {"n": k}
DictV(k) == [tag |-> "dict", n |-> k]

\* Type annotations are "int", "Item" and "Any"; NoType is Python's None
\* where a class is optional.
NoType == "None"

\* a class (or typing construct) used as a value
ClassV(T) ==
    CASE T = "int" -> [tag |-> "class int", n |-> 0]
      [] T = "Item" -> [tag |-> "class Item", n |-> 0]
      [] T = "Any" -> [tag |-> "typing.Any", n |-> 0]
      [] OTHER -> NoneV

\* bool(cls): None is falsy, a class is truthy
Truthy(T) == T # NoType

EmptyMap == [x \in {} |-> NoneV]

\* dict.get(key) with the default None
Get(m, k) == IF k \in DOMAIN m THEN m[k] ELSE NoneV

----------------------------------------------------------------------------
(* Strings as sequences of characters. *)

DigitChar == <<"0", "1", "2", "3", "4", "5", "6", "7", "8", "9">>

RECURSIVE IntStr(_)
IntStr(k) ==
    IF k < 10 THEN <<DigitChar[k + 1]>>
    ELSE IntStr(k \div 10) \o <<DigitChar[(k % 10) + 1]>>

\* format(value, ""): the string form of a value
Str(v) ==
    CASE v.tag = "int" -> IntStr(v.n)
      [] v.tag = "None" -> <<"N", "o", "n", "e">>
      [] v.tag = "Item" -> <<"I", "t", "e", "m", "(", "n", "=">> \o IntStr(v.n) \o <<")">>
      [] v.tag = "dict" -> <<"{", "'", "n", "'", ":", " ">> \o IntStr(v.n) \o <<"}">>
      [] OTHER -> <<"<", "o", "b", "j", ">">>

\* a strip of one trailing slash only
RstripOnce(s) ==
    IF Len(s) > 0 /\ s[Len(s)] = "/" THEN SubSeq(s, 1, Len(s) - 1) ELSE s

RECURSIVE Rstrip(_)
\* str.rstrip("/")
Rstrip(s) ==
    IF Len(s) > 0 /\ s[Len(s)] = "/" THEN Rstrip(SubSeq(s, 1, Len(s) - 1)) ELSE s

----------------------------------------------------------------------------
(* Exceptions and outcomes. *)

Exc(cls, msg, cause) == [cls |-> cls, msg |-> msg, cause |-> cause]
NoExc == Exc("", "", "")

Returned(v) == [kind |-> "return", val |-> v, exc |-> NoExc]
Raised(e) == [kind |-> "raise", val |-> NoneV, exc |-> e]

\* issubclass(cls, base) for the exception classes that occur
IsSubclass(cls, base) ==
    \/ cls = base
    \/ base = "RequestException"
       /\ cls \in {"ConnectionError", "Timeout", "RequestsJSONDecodeError"}
    \/ base = "JSONDecodeError" /\ cls = "RequestsJSONDecodeError"
    \/ base = "ApiError" /\ cls = "NotFoundError"

----------------------------------------------------------------------------
(* The Serializer collaborator (dataclass_factory.Factory): dump and load  *)
(* fail on a shape mismatch; a result is [ok, val].                        *)

Ok(v) == [ok |-> TRUE, val |-> v]
Fail == [ok |-> FALSE, val |-> NoneV]

Dump(v, T) ==
    CASE T = "int" -> IF v.tag = "int" THEN Ok(v) ELSE Fail
      [] T = "Item" -> IF v.tag = "Item" THEN Ok(DictV(v.n)) ELSE Fail
      [] OTHER ->
            CASE v.tag \in {"int", "None", "dict"} -> Ok(v)
              [] v.tag = "Item" -> Ok(DictV(v.n))
              [] OTHER -> Fail

Load(j, T) ==
    CASE T = "int" -> IF j.tag = "int" THEN Ok(j) ELSE Fail
      [] T = "Item" -> IF j.tag = "dict" THEN Ok(ItemV(j.n)) ELSE Fail
      [] OTHER -> Ok(j)

\* dump of a mapping under a TypedDict whose fields are `fields`
\* (name -> type): the declared fields, each dumped under its type
DumpArgs(m, fields) ==
    IF \A k \in DOMAIN fields : k \in DOMAIN m /\ Dump(m[k], fields[k]).ok
    THEN Ok([k \in DOMAIN fields |-> Dump(m[k], fields[k]).val])
    ELSE Fail

----------------------------------------------------------------------------
(* Method declarations: a signature is [name, args, ann, defaults] with    *)
(* args the parameter names in order (the receiver first), ann the         *)
(* annotations (of parameters and of "return") and defaults the default    *)
(* values.                                                                 *)

\* def get_item(self, id: int, q: int = 3) -> Item
F_get_item ==
    [name |-> "get_item",
     args |-> <<"self", "id", "q">>,
     ann |-> ("id" :> "int" @@ "q" :> "int" @@ "return" :> "Item"),
     defaults |-> ("q" :> IntV(3))]

\* def put_item(self, id: int, body, q: int = 3)
F_put_item ==
    [name |-> "put_item",
     args |-> <<"self", "id", "body", "q">>,
     ann |-> ("id" :> "int" @@ "q" :> "int"),
     defaults |-> ("q" :> IntV(3))]

\* def post_raw(self, body: Any, q=3) -> int
F_post_raw ==
    [name |-> "post_raw",
     args |-> <<"self", "body", "q">>,
     ann |-> ("body" :> "Any" @@ "return" :> "int"),
     defaults |-> ("q" :> IntV(3))]

Funcs == {F_get_item, F_put_item, F_post_raw}

\* URL templates: a sequence of literal characters and {name} placeholders
Lit(c) == [ph |-> FALSE, s |-> c]
Ph(name) == [ph |-> TRUE, s |-> name]

\* "u/{id}", "{id}/{q}", "u/{x}"
Templates ==
    { <<Lit("u"), Lit("/"), Ph("id")>>,
      <<Ph("id"), Lit("/"), Ph("q")>>,
      <<Lit("u"), Lit("/"), Ph("x")>> }

\* [x[1] for x in string.Formatter().parse(url_format)]: the field names
FieldNames(url_format) ==
    {url_format[i].s : i \in {j \in 1..Len(url_format) : url_format[j].ph}}

\* typing.get_type_hints(func).get(name)
HintsGet(func, name) == IF name \in DOMAIN func.ann THEN func.ann[name] ELSE NoType

\* create_args_class(func, skipped): the fields of the TypedDict, the
\* parameters after the first that are not skipped, each with its annotation
\* (Any when it has none)
create_args_class(func, skipped) ==
    LET kept == {func.args[i] : i \in {j \in 2..Len(func.args) : func.args[j] \notin skipped}}
    IN  [x \in kept |-> IF x \in DOMAIN func.ann THEN func.ann[x] ELSE "Any"]

\* rest(url_format, method=, body_name=)(func): what dec computes and the
\* wrapper closes over. Nothing in dec raises.
rest(url_format, method, body_name, func) ==
    LET skipped == FieldNames(url_format) \cup {body_name}
    IN  [declared |-> TRUE,
         raised |-> NoExc,
         url_format |-> url_format,
         method |-> method,
         body_name |-> body_name,
         func |-> func,
         result_class |-> HintsGet(func, "return"),
         body_class |-> HintsGet(func, body_name),
         args_class |-> create_args_class(func, skipped)]

\* the convenience decorators
get(url_format, func) == rest(url_format, "GET", "", func)
delete(url_format, func) == rest(url_format, "DELETE", "", func)
patch(url_format, body_name, func) == rest(url_format, "PATCH", body_name, func)
put(url_format, body_name, func) == rest(url_format, "PUT", body_name, func)
post(url_format, body_name, func) == rest(url_format, "POST", body_name, func)

NoRoute ==
    [declared |-> FALSE, raised |-> NoExc, url_format |-> <<>>, method |-> "",
     body_name |-> "", func |-> F_get_item, result_class |-> NoType,
     body_class |-> NoType, args_class |-> EmptyMap]

\* the index of a parameter name in a signature (0 when it is not one)
IndexOf(args, x) ==
    IF \E i \in 1..Len(args) : args[i] = x
    THEN CHOOSE i \in 1..Len(args) : args[i] = x
    ELSE 0

\* inspect.getcallargs(func, self, *pos, **kw): positional arguments bind
\* in order, then named ones, then defaults; TypeError on too many
\* positionals, an unknown name, a name bound twice or a missing argument
getcallargs(func, pos, kw) ==
    LET all == <<SelfV>> \o pos
        names == {func.args[i] : i \in 1..Len(func.args)}
        bound(x) ==
            \/ IndexOf(func.args, x) <= Len(all)
            \/ x \in DOMAIN kw
            \/ x \in DOMAIN func.defaults
    IN  IF \/ Len(all) > Len(func.args)
           \/ \E k \in DOMAIN kw : k \notin names \/ IndexOf(func.args, k) <= Len(all)
           \/ \E x \in names : ~bound(x)
        THEN Fail
        ELSE Ok([x \in names |->
                    IF IndexOf(func.args, x) <= Len(all) THEN all[IndexOf(func.args, x)]
                    ELSE IF x \in DOMAIN kw THEN kw[x]
                    ELSE func.defaults[x]])

RECURSIVE Format(_, _)
\* url_format.format(**params): every placeholder replaced by the string
\* form of the value of that name; KeyError (Fail) when there is none
Format(url_format, params) ==
    IF url_format = <<>> THEN Ok(<<>>)
    ELSE LET t == Head(url_format)
             rest_ == Format(Tail(url_format), params)
         IN  IF t.ph /\ t.s \notin DOMAIN params THEN Fail
             ELSE IF ~rest_.ok THEN Fail
             ELSE Ok((IF t.ph THEN Str(params[t.s]) ELSE <<t.s>>) \o rest_.val)

----------------------------------------------------------------------------
(* BaseClient. *)

\* the handler every client starts with: raises NotFoundError
Handle404 == "_handle_404"
\* a handler a subclass or a caller registers: raises ConflictError
HandleCustom == "handle_conflict"
Handlers == {Handle404, HandleCustom}
\* dict.get finding nothing
NoHandler == ""

\* the status code of the default entry of error_handlers
NotFound == 404

\* what the transport can answer: [raises, ok, status, jsonFail, json].
\* raises names the exception session.request raises ("" when it returns a
\* response); jsonFail names the exception response.json() raises ("" when
\* the body parses, to json). requests raises its own JSONDecodeError, a
\* subclass of both RequestException and json.JSONDecodeError, from 2.27 on
\* and json.JSONDecodeError before.
Answer(raises, ok, status, jsonFail, json) ==
    [raises |-> raises, ok |-> ok, status |-> status, jsonFail |-> jsonFail, json |-> json]

Answers ==
    {Answer(e, FALSE, 0, "", NoneV) : e \in {"ConnectionError", "Timeout"}}
    \cup {Answer("", FALSE, c, "", NoneV) : c \in {NotFound, 500}}
    \cup {Answer("", TRUE, 200, "", j) : j \in {IntV(5), DictV(1)}}
    \cup {Answer("", TRUE, 200, e, NoneV) : e \in {"JSONDecodeError", "RequestsJSONDecodeError"}}

\* str(response)
StrResponse(status) ==
    CASE status = NotFound -> "<Response [404]>"
      [] status = 500 -> "<Response [500]>"
      [] OTHER -> "<Response [200]>"

\* self.error_handlers.get(key)
HandlerGet(key) == IF key \in DOMAIN error_handlers THEN error_handlers[key] ELSE NoHandler

\* BaseClient.handle_error: looks the handler up under (method, status),
\* then under ("", status); raises ApiError(str(response)) when there is
\* none, and otherwise falls off its end, returning None
handle_error(method, status) ==
    LET h1 == HandlerGet(<<method, status>>)
        h2 == IF h1 = NoHandler THEN HandlerGet(<<"", status>>) ELSE h1
    IN  IF h2 = NoHandler
        THEN Raised(Exc("ApiError", StrResponse(status), ""))
        ELSE Returned(NoneV)

\* Optional[Dict]: None, or a dict m
NoParams == [isNone |-> TRUE, m |-> EmptyMap]
Params(m) == [isNone |-> FALSE, m |-> m]

\* BaseClient._filter_params: None and {} are returned as they are; an
\* entry is kept when its value is not the client, or is in skip
filter_params(params, skip) ==
    IF params.isNone \/ DOMAIN params.m = {} THEN params
    ELSE LET keep == {k \in DOMAIN params.m : params.m[k] # SelfV \/ params.m[k] \in skip}
         IN  Params([k \in keep |-> params.m[k]])

\* a request that never loads the body into the result class
AfterSendRaw(method, result_class, answer) ==
    IF answer.raises # "" THEN Raised(Exc(answer.raises, "", ""))
    ELSE IF ~answer.ok THEN handle_error(method, answer.status)
    ELSE IF answer.jsonFail # "" THEN Raised(Exc(answer.jsonFail, "", ""))
    ELSE Returned(answer.json)

\* the statements of request's try block from the response on
AfterSend(method, result_class, answer) ==
    IF answer.raises # "" THEN Raised(Exc(answer.raises, "", ""))
    ELSE IF ~answer.ok THEN handle_error(method, answer.status)
    ELSE IF answer.jsonFail # "" THEN Raised(Exc(answer.jsonFail, "", ""))
    ELSE IF Truthy(result_class)
         THEN LET r == Load(answer.json, result_class)
              IN  IF r.ok THEN Returned(r.val)
                  ELSE Raised(Exc("SerializationError", "", ""))
         ELSE Returned(answer.json)

\* a request without its except RequestException clause
ExceptDecodeOnly(o) ==
    IF o.kind = "raise" /\ IsSubclass(o.exc.cls, "JSONDecodeError")
    THEN Raised(Exc("ApiError", "Cannot decode response", o.exc.cls))
    ELSE o

\* request's except clauses, in their order
ExceptClauses(o) ==
    IF o.kind = "raise" /\ IsSubclass(o.exc.cls, "RequestException")
    THEN Raised(Exc("ApiError", "RequestException", o.exc.cls))
    ELSE IF o.kind = "raise" /\ IsSubclass(o.exc.cls, "JSONDecodeError")
    THEN Raised(Exc("ApiError", "Cannot decode response", o.exc.cls))
    ELSE o

\* a request that sends again when the transport fails
AttemptRetry(req, o) ==
    IF o.kind = "raise" /\ IsSubclass(o.exc.cls, "RequestException")
    THEN <<req, req>>
    ELSE <<req>>

\* the calls of session.request that one call of request makes: one
Attempt(req, o) == <<req>>

\* BaseClient.request: [sent, outcome], sent the calls of session.request
request(url, method, params, body, body_class, result_class, answer) ==
    LET full == base_url \o <<"/">> \o url
        dumped == IF Truthy(body_class) THEN Dump(body, body_class) ELSE Ok(body)
    IN  IF ~dumped.ok
        THEN [sent |-> <<>>, outcome |-> Raised(Exc("SerializationError", "", ""))]
        ELSE LET req == [method |-> method,
                         url |-> full,
                         params |-> filter_params(params,
                                       {ClassV(result_class), ClassV(body_class)}),
                         json |-> dumped.val]
                 o == AfterSend(method, result_class, answer)
             IN  [sent |-> Attempt(req, o), outcome |-> ExceptClauses(o)]

\* the keyword arguments of a call of request; NoReq when there is none
Req(url, method, params, body, body_class, result_class) ==
    [url |-> url, method |-> method, params |-> params, body |-> body,
     body_class |-> body_class, result_class |-> result_class]
NoReq == Req(<<>>, "", NoParams, NoneV, NoType, NoType)

\* the wrapper the decorator returns (inner), for the route r:
\* [req, sent, outcome], req the arguments it calls self.request with
inner(r, pos, kw, answer) ==
    LET bound == getcallargs(r.func, pos, kw)
        url == Format(r.url_format, bound.val)
        params == DumpArgs(bound.val, r.args_class)
        failed(cls) == [req |-> NoReq, sent |-> <<>>, outcome |-> Raised(Exc(cls, "", ""))]
    IN  IF ~bound.ok THEN failed("TypeError")
        ELSE IF ~url.ok THEN failed("KeyError")
        ELSE IF ~params.ok THEN failed("SerializationError")
        ELSE LET req == Req(url.val, r.method, Params(params.val),
                            Get(params.val, r.body_name), r.body_class, r.result_class)
                 res == request(req.url, req.method, req.params, req.body,
                                req.body_class, req.result_class, answer)
             IN  [req |-> req, sent |-> res.sent, outcome |-> res.outcome]

----------------------------------------------------------------------------
(* The inputs of the operations. *)

RECURSIVE Slashes(_)
Slashes(k) == IF k = 0 THEN <<>> ELSE <<"/">> \o Slashes(k - 1)

\* base URLs given to __init__: "h/a" followed by 0..MaxSlashes slashes
BaseUrls == {<<"h", "/", "a">> \o Slashes(k) : k \in 0..MaxSlashes}

\* the positional arguments of a call: the i-th is 10 + i
Positionals == {[i \in 1..k |-> IntV(10 + i)] : k \in 0..MaxPos}

\* the named arguments of a call: none, one, id and q, or q given an Item
Keywords ==
    {EmptyMap} \cup {k :> IntV(7) : k \in {"id", "q", "body"}}
    \cup {"id" :> IntV(7) @@ "q" :> IntV(8), "q" :> ItemV(1)}

\* the decorated declarations
Routes ==
    UNION {
        { get(t, f), delete(t, f), patch(t, "body", f), put(t, "body", f),
          post(t, "body", f), rest(t, "POST", "q", f) }
        : t \in Templates, f \in Funcs }

Verbs == {"GET", "DELETE"}

\* arguments of a direct call of request
DirectParams ==
    { NoParams,
      Params("a" :> IntV(7)),
      Params("a" :> SelfV @@ "b" :> ClassV("Item") @@ "c" :> NoneV) }

DirectBodies ==
    { [body |-> NoneV, body_class |-> NoType],
      [body |-> ItemV(1), body_class |-> "Item"],
      [body |-> IntV(7), body_class |-> "Item"] }

ResultClasses == {NoType, "Item"}

NoAnswer == Answer("", FALSE, 0, "", NoneV)

Op(op, pos, kw, req, answer, res) ==
    [op |-> op, pos |-> pos, kw |-> kw, req |-> req, answer |-> answer,
     sent |-> res.sent, outcome |-> res.outcome]

NoRes == [sent |-> <<>>, outcome |-> Returned(NoneV)]

----------------------------------------------------------------------------
(* The state machine. *)

\* BaseClient.__init__(base_url, session)
Init ==
    /\ init_arg \in BaseUrls
    /\ base_url = Rstrip(init_arg)
    /\ error_handlers = (<<"", NotFound>> :> Handle404)
    /\ route = NoRoute
    /\ last = Op("init", <<>>, EmptyMap, NoReq, NoAnswer, NoRes)

\* a decorator is applied to a method of the client class
Declare ==
    /\ ~route.declared
    /\ \E r \in Routes :
        /\ route' = r
        /\ last' = Op("declare", <<>>, EmptyMap, NoReq, NoAnswer, NoRes)
    /\ UNCHANGED <<init_arg, base_url, error_handlers>>

\* the decorated method is called
CallMethod ==
    /\ route.declared
    /\ \E pos \in Positionals, kw \in Keywords, answer \in Answers :
        LET res == inner(route, pos, kw, answer)
        IN  last' = Op("method", pos, kw, res.req, answer, res)
    /\ UNCHANGED <<init_arg, base_url, error_handlers, route>>

\* request is called directly
CallRequest ==
    /\ \E method \in Verbs, params \in DirectParams, b \in DirectBodies,
          result_class \in ResultClasses, answer \in Answers :
        LET req == Req(<<"u">>, method, params, b.body, b.body_class, result_class)
        IN  last' = Op("request", <<>>, EmptyMap, req, answer,
                       request(req.url, method, params, b.body, b.body_class,
                               result_class, answer))
    /\ UNCHANGED <<init_arg, base_url, error_handlers, route>>

\* error_handlers[(verb, status)] = handler
RegisterHandler ==
    /\ \E verb \in {"", "GET"}, status \in {NotFound}, h \in Handlers :
        error_handlers' =
              [k \in DOMAIN error_handlers \cup {<<verb, status>>} |->
                  IF k = <<verb, status>> THEN h ELSE error_handlers[k]]
    /\ last' = Op("register", <<>>, EmptyMap, NoReq, NoAnswer, NoRes)
    /\ UNCHANGED <<init_arg, base_url, route>>

\* del error_handlers[(verb, status)]
RemoveHandler ==
    /\ \E key \in DOMAIN error_handlers :
        error_handlers' = [k \in DOMAIN error_handlers \ {key} |-> error_handlers[k]]
    /\ last' = Op("remove", <<>>, EmptyMap, NoReq, NoAnswer, NoRes)
    /\ UNCHANGED <<init_arg, base_url, route>>

\* a client class is declared and its methods are called
NextMethods == Declare \/ CallMethod
SpecMethods == Init /\ [][NextMethods]_vars

\* a client is used directly and its handler table is changed
NextClient == CallRequest \/ RegisterHandler \/ RemoveHandler
SpecClient == Init /\ [][NextClient]_vars

\* client methods and request are both called
\* (the base URL, which plays no part in it, is fixed)
InitCalls == Init /\ init_arg = <<"h", "/", "a", "/">>
NextCalls == Declare \/ CallMethod \/ CallRequest
SpecCalls == InitCalls /\ [][NextCalls]_vars

\* everything together; the properties below are checked under SpecMethods
\* (declaration and method calls) and SpecClient (request and the table)
Next == NextMethods \/ NextClient
Spec == Init /\ [][Next]_vars

----------------------------------------------------------------------------
(* What the claims speak of. *)

IsCall == last.op \in {"request", "method"}
\* the call got as far as the transport
Sent == IsCall /\ Len(last.sent) >= 1
\* the verb and the result class of the last call
CallVerb == IF last.op = "method" THEN route.method ELSE last.req.method
CallResultClass ==
    IF last.op = "method" THEN HintsGet(route.func, "return") ELSE last.req.result_class

\* the transport answered with a response that is not ok
NotOkResponse == Sent /\ last.answer.raises = "" /\ ~last.answer.ok
\* the transport answered with an ok response whose body parses
ParsedResponse ==
    Sent /\ last.answer.raises = "" /\ last.answer.ok /\ last.answer.jsonFail = ""

\* the exception a handler raises
HandlerRaises(h) ==
    IF h = Handle404 THEN Exc("NotFoundError", "", "") ELSE Exc("ConflictError", "", "")

\* the exception the lookup order of the error router selects
RoutedError(verb, status) ==
    IF <<verb, status>> \in DOMAIN error_handlers
    THEN HandlerRaises(error_handlers[<<verb, status>>])
    ELSE IF <<"", status>> \in DOMAIN error_handlers
    THEN HandlerRaises(error_handlers[<<"", status>>])
    ELSE Exc("ApiError", StrResponse(status), "")

\* C1: a call whose response is not ok with status c ends by raising the
\* exception of the handler under (verb, c), else of the one under ("", c),
\* else ApiError(str(response)); it never returns a value.
C1_ErrorRouting ==
    NotOkResponse =>
        last.outcome = Raised(RoutedError(CallVerb, last.answer.status))

FreshHandlers == error_handlers = (<<"", NotFound>> :> Handle404)

\* C2: on a client whose table holds only the default ("", 404) entry, a
\* response that is not ok with status 404 raises NotFoundError, whatever
\* the verb.
C2_Default404 ==
    FreshHandlers /\ NotOkResponse /\ last.answer.status = NotFound =>
        last.outcome.kind = "raise" /\ last.outcome.exc.cls = "NotFoundError"

\* C3: when session.request raises a RequestException e, the call raises
\* ApiError("RequestException") with cause e, and the transport was called
\* once.
C3_TransportFailureWrapped ==
    Sent /\ last.answer.raises # "" =>
        /\ last.outcome = Raised(Exc("ApiError", "RequestException", last.answer.raises))
        /\ Len(last.sent) = 1

C3_Witness ==
    /\ last.op = "request"
    /\ Len(last.sent) = 1
    /\ last.answer.raises = "Timeout"
    /\ last.outcome.kind = "raise"
    /\ last.outcome.exc.msg = "RequestException"
    /\ last.outcome.exc.cause = "Timeout"

\* C4: when the response is ok and response.json() raises a decode failure
\* d, the call raises ApiError("Cannot decode response") with cause d.
C4_DecodeFailureWrapped ==
    Sent /\ last.answer.raises = "" /\ last.answer.ok /\ last.answer.jsonFail # "" =>
        last.outcome = Raised(Exc("ApiError", "Cannot decode response", last.answer.jsonFail))

\* C5: an ok response with the parsed body v returns Serializer.load(v, T)
\* when a result type T is declared and the load succeeds, and v itself
\* when none is declared.
C5_ResultDecoded ==
    ParsedResponse =>
        LET T == CallResultClass
            v == last.answer.json
        IN  /\ T # NoType /\ Load(v, T).ok => last.outcome = Returned(Load(v, T).val)
            /\ T = NoType => last.outcome = Returned(v)

C5_Witness ==
    /\ last.op = "method"
    /\ ParsedResponse
    /\ CallResultClass = "Item"
    /\ last.answer.json = DictV(1)
    /\ last.outcome = Returned(ItemV(1))

\* the placeholders of the route's template that are no parameter of the method
MissingPlaceholders ==
    FieldNames(route.url_format) \ {route.func.args[i] : i \in 1..Len(route.func.args)}

\* C6: applying the decorator to a method whose template names a
\* placeholder that is no parameter raises RouteDefinitionError, at
\* declaration time.
C6_RaisesAtDeclaration ==
    route.declared /\ MissingPlaceholders # {} =>
        route.raised.cls = "RouteDefinitionError"

\* the value a call passes for the parameter x: by name, else by position,
\* else the default
PassedValue(x) ==
    IF x \in DOMAIN last.kw THEN last.kw[x]
    ELSE IF IndexOf(route.func.args, x) - 1 \in 1..Len(last.pos)
    THEN last.pos[IndexOf(route.func.args, x) - 1]
    ELSE route.func.defaults[x]

\* the route declares a body parameter that is a parameter of the method
HasBodyParam ==
    \E i \in 2..Len(route.func.args) : route.func.args[i] = route.body_name

\* C7: the value x of a declared body parameter b is no entry of the query
\* mapping handed to the transport, and the JSON body handed to it is the
\* serialization of x under b's declared type.
C7_BodyOnlyAsBody ==
    last.op = "method" /\ Sent /\ HasBodyParam =>
        LET b == route.body_name
            T == IF b \in DOMAIN route.func.ann THEN route.func.ann[b] ELSE "Any"
        IN  /\ b \notin DOMAIN last.sent[1].params.m
            /\ last.sent[1].json = Dump(PassedValue(b), T).val

RECURSIVE ExpectedPath(_)
\* the template with every placeholder replaced by the string form of the
\* value passed for it
ExpectedPath(t) ==
    IF t = <<>> THEN <<>>
    ELSE (IF Head(t).ph THEN Str(PassedValue(Head(t).s)) ELSE <<Head(t).s>>)
         \o ExpectedPath(Tail(t))

\* the base URL given to the constructor without its trailing slashes
StrippedBase ==
    CHOOSE p \in {SubSeq(init_arg, 1, k) : k \in 0..Len(init_arg)} :
        /\ \E k \in 0..Len(init_arg) : init_arg = p \o [i \in 1..k |-> "/"]
        /\ p = <<>> \/ p[Len(p)] # "/"

\* C8: the URL handed to the transport is the base URL without its trailing
\* slashes, "/", and the template with each placeholder replaced by the
\* string form of the value passed for it positionally, by name or by
\* default.
C8_UrlBuilt ==
    last.op = "method" /\ Sent =>
        last.sent[1].url = StrippedBase \o <<"/">> \o ExpectedPath(route.url_format)

C8_Witness ==
    /\ last.op = "method"
    /\ Sent
    /\ init_arg = <<"h", "/", "a", "/", "/">>
    /\ last.pos = <<IntV(11)>>
    /\ last.kw = EmptyMap
    /\ last.sent[1].url = <<"h", "/", "a", "/", "1", "1", "/", "3">>

\* C9: the query mapping handed to the transport holds exactly the entries
\* of params whose value is neither result_class nor body_class.
C9_SentinelsDropped ==
    last.op = "request" /\ Sent /\ ~last.req.params.isNone =>
        LET m == last.req.params.m
            sentinels == {ClassV(last.req.result_class), ClassV(last.req.body_class)}
            keep == {k \in DOMAIN m : m[k] \notin sentinels}
        IN  last.sent[1].params.m = [k \in keep |-> m[k]]

\* C10 as stated: every invocation of a client method, and every call of
\* request, calls session.request exactly once, on every path.
C10_ExactlyOnce == IsCall => Len(last.sent) = 1

\* the ways an invocation fails before the transport is called
BindFails ==
    last.op = "method" /\ ~getcallargs(route.func, last.pos, last.kw).ok
FormatFails ==
    last.op = "method" /\ ~BindFails /\ MissingPlaceholders # {}
ArgsDumpFails ==
    /\ last.op = "method" /\ ~BindFails /\ ~FormatFails
    /\ \E x \in DOMAIN route.args_class :
          ~Dump(PassedValue(x), route.args_class[x]).ok
\* request was called with a body that does not serialize under body_class
BodyDumpFails ==
    /\ last.req.body_class # NoType
    /\ ~Dump(last.req.body, last.req.body_class).ok

\* C10 amended: an invocation of a client method, and a call of request,
\* calls session.request at most once, never a second time: once on every
\* path that gets as far as the transport (a response that is not ok, a
\* transport failure, a decode failure, a result that does not load), and
\* not at all when it fails before that: the arguments do not bind
\* (TypeError), the URL does not format (KeyError), the arguments or the
\* body do not serialize (SerializationError).
C10_AtMostOnce ==
    IsCall =>
        /\ Len(last.sent) <= 1
        /\ Len(last.sent) = 0 <=>
              BindFails \/ FormatFails \/ ArgsDumpFails \/ BodyDumpFails
        /\ BindFails => last.outcome = Raised(Exc("TypeError", "", ""))
        /\ FormatFails => last.outcome = Raised(Exc("KeyError", "", ""))
        /\ ArgsDumpFails \/ BodyDumpFails =>
              last.outcome = Raised(Exc("SerializationError", "", ""))

\* a client method got as far as request, whose body did not serialize
C10_Witness ==
    /\ last.op = "method"
    /\ last.req.method = "POST"
    /\ BodyDumpFails
    /\ last.sent = <<>>
    /\ last.outcome.kind = "raise"
    /\ last.outcome.exc.cls = "SerializationError"

====
